---- MODULE Spec2Model ----
(***************************************************************************)
(* Model of src/smoke_simulation.py: the particle pool, the uniform grid  *)
(* (FixedGrid), the per-particle SPH passes and integration step, and the *)
(* frame loop of main().                                                  *)
(*                                                                         *)
(* Numbers.  Positions are pixels, kept on the integer lattice.  The      *)
(* float quantities are kept in fixed point:                              *)
(*   life, decay      in 1/LifeUnit   (255.0 is 255 * LifeUnit)            *)
(*   density,pressure in 1/DensityUnit (0.0001 is DensityFloor = 1)        *)
(*   radius           in 1/RadiusUnit (growth 0.05 is 1)                   *)
(* random.uniform draws are nondeterministic choices from small sets.     *)
(* The velocity that update() reaches at line 363 (forces, random wind,   *)
(* the sin/cos curl field, drag) is drawn from Vel: the model keeps no    *)
(* vx, vy, ax, ay fields, only what the velocity does to the position.    *)
(***************************************************************************)
EXTENDS Integers, Sequences, FiniteSets, TLC

\* ------------------------------------------------------------ constants
WIDTH == 1000
HEIGHT == 700

\* ParticlePool(size): main() passes 200.
PoolSize == 2
\* ParticlePool(size) where the pool is used alone.
CallerPoolSize == 3
\* params.particle_lifetime * FPS of Particle.reset (96 with the defaults).
LifetimeFrames == 2
\* Frames the model runs: params.time advances by 0.01 per frame.
MaxFrames == 3
\* The smoothing-radius slider is dragged to pixels SliderX0 + 4*t, t in 0..MaxSliderTicks.
MaxSliderTicks == 2

None == 0
\* The mouse button is not held.
MouseUp == <<0, 0>>

LifeUnit == 5 * LifetimeFrames
DensityUnit == 10000
DensityFloor == 1
RadiusUnit == 20

\* ------------------------------------------------------------ arithmetic
Abs(a) == IF a < 0 THEN -a ELSE a
Max(a, b) == IF a >= b THEN a ELSE b
Min(a, b) == IF a <= b THEN a ELSE b

\* Python int(a / b) for b > 0: truncation toward zero.
IntDiv(a, b) == IF a >= 0 THEN a \div b ELSE -((-a) \div b)

\* math.ceil(a / b) for a >= 0, b > 0.
CeilDiv(a, b) == (a + b - 1) \div b

RECURSIVE ISqrtIn(_, _, _)
ISqrtIn(n, lo, hi) ==
  IF lo >= hi THEN lo
  ELSE LET mid == (lo + hi + 1) \div 2
       IN IF mid * mid <= n THEN ISqrtIn(n, mid, hi) ELSE ISqrtIn(n, lo, mid - 1)

\* floor(sqrt(n))
ISqrt(n) == ISqrtIn(n, 0, Min(n, 46340))

\* a / b rounded away from zero, b > 0.
DivAway(a, b) == IF a >= 0 THEN CeilDiv(a, b) ELSE -CeilDiv(-a, b)

RECURSIVE SeqSet(_)
SeqSet(s) == IF s = <<>> THEN {} ELSE {Head(s)} \cup SeqSet(Tail(s))

\* Swap-remove: the last element takes the place of the first one equal to p.
RemoveSwap(s, p) ==
  IF \A n \in 1..Len(s) : s[n] # p THEN s
  ELSE LET k == CHOOSE n \in 1..Len(s) : s[n] = p /\ \A m \in 1..(n - 1) : s[m] # p
       IN SubSeq([s EXCEPT ![k] = s[Len(s)]], 1, Len(s) - 1)

RECURSIVE Remove(_, _)
\* list.remove(p): drops the first element equal to p.
Remove(s, p) ==
  IF s = <<>> THEN <<>>
  ELSE IF Head(s) = p THEN Tail(s) ELSE <<Head(s)>> \o Remove(Tail(s), p)

\* ------------------------------------------------------------ Particle
\* 255.0 / max(1, lifetime_frames), in life units.
base_decay == (255 * LifeUnit) \div Max(1, LifetimeFrames)

\* random.uniform(base_decay * 0.8, base_decay * 1.2): its two ends.
DecayChoices == {(base_decay * 4) \div 5, (base_decay * 6) \div 5}

\* random.uniform(particle_size, particle_size * 1.5) with particle_size = 4.0.
RadiusChoices == {4 * RadiusUnit}

\* Particle.reset(x, y) with its two draws that outlive the call.
reset(x, y, decay, radius) ==
  [x |-> x, y |-> y, life |-> 255 * LifeUnit, decay |-> decay,
   radius |-> radius, density |-> 0, pressure |-> 0]

is_dead(p) == p.life <= 0

\* ------------------------------------------------------------ ParticlePool
\* get without its "if not self.pool" guard: pop from an empty list raises.
get_unguarded(pl, act) ==
  IF pl = <<>>
  THEN [pool |-> pl, active |-> act, ret |-> None, err |-> "IndexError"]
  ELSE [pool |-> SubSeq(pl, 1, Len(pl) - 1),
        active |-> Append(act, pl[Len(pl)]),
        ret |-> pl[Len(pl)], err |-> "none"]

\* ParticlePool.get without the reset of the slot's fields: the new free list,
\* the new active list, the returned slot and the exception raised, if any.
get(pl, act) ==
  IF pl = <<>>
  THEN [pool |-> pl, active |-> act, ret |-> None, err |-> "none"]
  ELSE [pool |-> SubSeq(pl, 1, Len(pl) - 1),
        active |-> Append(act, pl[Len(pl)]),
        ret |-> pl[Len(pl)], err |-> "none"]

\* return_particle without its membership guard.
return_particle_unguarded(pl, act, p) ==
  [pool |-> Append(pl, p), active |-> Remove(act, p)]

\* return_particle that appends to the free list and forgets the removal.
return_particle_keep(pl, act, p) ==
  IF p \in SeqSet(act)
  THEN [pool |-> Append(pl, p), active |-> act]
  ELSE [pool |-> pl, active |-> act]

return_particle(pl, act, p) ==
  IF p \in SeqSet(act)
  THEN [pool |-> Append(pl, p), active |-> Remove(act, p)]
  ELSE [pool |-> pl, active |-> act]

\* ------------------------------------------------------------ FixedGrid
\* The buckets self.cells are kept as the list of appends <<row, column, slot>>
\* made since the buckets were last emptied: bucket cells[r][c] is Bucket(g, r, c).
FixedGrid(width, height, cell_size) ==
  [cell_size |-> cell_size,
   cols |-> CeilDiv(width, cell_size),
   rows |-> CeilDiv(height, cell_size),
   cells |-> <<>>]

RECURSIVE Slots(_)
Slots(es) == IF es = <<>> THEN <<>> ELSE <<Head(es).p>> \o Slots(Tail(es))

\* self.cells[r][c]
Bucket(g, r, c) ==
  LET at(e) == e.r = r /\ e.c = c
  IN Slots(SelectSeq(g.cells, at))

clear(g) == [g EXCEPT !.cells = <<>>]

\* FixedGrid.insert of slot p standing at (x, y).
insert(g, p, x, y) ==
  LET cx == IntDiv(x, g.cell_size)
      cy == IntDiv(y, g.cell_size)
  IN IF 0 <= cx /\ cx < g.cols /\ 0 <= cy /\ cy < g.rows
     THEN [g EXCEPT !.cells = Append(@, [r |-> cy, c |-> cx, p |-> p])]
     ELSE g

\* A scan of range(c - 1, c + 1) in both directions: four cells.
ScanCells_2x2(cx, cy) ==
  [n \in 1..4 |-> [r |-> cy - 1 + ((n - 1) \div 2), c |-> cx - 1 + ((n - 1) % 2)]]

\* The nine cells FixedGrid.query visits, in its loop order.
ScanCells(cx, cy) ==
  [n \in 1..9 |-> [r |-> cy - 1 + ((n - 1) \div 3), c |-> cx - 1 + ((n - 1) % 3)]]

RECURSIVE QueryFrom(_, _, _, _, _, _, _)
QueryFrom(g, pt, x, y, radius, scan, n) ==
  IF n > Len(scan) THEN <<>>
  ELSE LET r == scan[n].r
           c == scan[n].c
           hit(p) == (pt[p].x - x) * (pt[p].x - x) + (pt[p].y - y) * (pt[p].y - y)
                       <= radius * radius
           here == IF 0 <= r /\ r < g.rows /\ 0 <= c /\ c < g.cols
                   THEN SelectSeq(Bucket(g, r, c), hit)
                   ELSE <<>>
       IN here \o QueryFrom(g, pt, x, y, radius, scan, n + 1)

\* FixedGrid.query(x, y, radius) over the particle fields pt.
query(g, pt, x, y, radius) ==
  QueryFrom(g, pt, x, y, radius,
            ScanCells(IntDiv(x, g.cell_size), IntDiv(y, g.cell_size)), 1)

\* Every slot held by some bucket of the grid.
InGrid(g) == {g.cells[n].p : n \in 1..Len(g.cells)}

\* ------------------------------------------------------------ Slider
SliderX == 50
SliderW == 200
SliderMin == 10
SliderMax == 60
\* Pixel of the slider that stands for the initial smoothing radius 30.0.
SliderX0 == SliderX + ((30 - SliderMin) * SliderW) \div (SliderMax - SliderMin)

\* Slider.update_val(mouse_x); exact when (max - min) * (mouse_x - x) is a multiple of w.
update_val(mouse_x) ==
  SliderMin + ((SliderMax - SliderMin) * Max(0, Min(SliderW, mouse_x - SliderX))) \div SliderW

SliderMouseXs == {SliderX0 + 4 * t : t \in 0..MaxSliderTicks}

\* ------------------------------------------------------------ SPH passes
\* params.target_density = 1.0 and 1 / params.pressure_multiplier = 1 / 0.1.
target_density == DensityUnit
PressureDiv == 10

Dist2(a, b) == (a.x - b.x) * (a.x - b.x) + (a.y - b.y) * (a.y - b.y)

\* q * q with q = 1.0 - dist / smoothing_radius, in density units; dist is
\* taken to 0.1 pixel and q to 0.01.
Kernel(d2, sr) ==
  LET dist10 == ISqrt(d2 * 100)
      q100 == ((sr * 10 - dist10) * 100) \div (sr * 10)
  IN q100 * q100

RECURSIVE DensitySum(_, _, _, _)
DensitySum(pt, p, ns, sr) ==
  IF ns = <<>> THEN 0
  ELSE (IF Dist2(pt[p], pt[Head(ns)]) < sr * sr
        THEN Kernel(Dist2(pt[p], pt[Head(ns)]), sr) ELSE 0)
       + DensitySum(pt, p, Tail(ns), sr)

\* Particle.compute_density_pressure: the density and pressure it stores.
compute_density_pressure(g, pt, p, sr) ==
  LET neighbors == query(g, pt, pt[p].x, pt[p].y, sr)
      density == Max(DensitySum(pt, p, neighbors, sr), DensityFloor)
  IN [density |-> density,
      pressure |-> Max(0, density - target_density) \div PressureDiv]

\* Particle.compute_pressure_force: the neighbours whose density line 303 divides by.
compute_pressure_force(g, pt, p, sr) ==
  LET neighbors == query(g, pt, pt[p].x, pt[p].y, sr)
      used(n) == n # p /\ 0 < Dist2(pt[p], pt[n]) /\ Dist2(pt[p], pt[n]) < sr * sr
  IN SelectSeq(neighbors, used)

\* ------------------------------------------------------------ Particle.update
\* Obstacle(WIDTH // 2 + 150, HEIGHT // 2, 60), Obstacle(WIDTH // 2 + 250, HEIGHT // 2 - 100, 40)
obstacles ==
  <<[x |-> WIDTH \div 2 + 150, y |-> HEIGHT \div 2, radius |-> 60],
    [x |-> WIDTH \div 2 + 250, y |-> HEIGHT \div 2 - 100, radius |-> 40]>>

\* The velocity (vx, vy) after line 363, one draw per update.
Vel == {<<0, -1>>}

\* One pass of the obstacle loop body, lines 369-388, on the tentative position
\* nxt = [x, y, err]; radius is the particle's.  The pushed-out position is
\* rounded to the lattice, away from the obstacle centre.
Collide(nxt, obs, radius) ==
  LET dx == nxt.x - obs.x
      dy == nxt.y - obs.y
      d2 == dx * dx + dy * dy
      min40 == 2 * RadiusUnit * obs.radius + radius
      lim == CeilDiv(min40, 2 * RadiusUnit)
      dist10 == ISqrt(d2 * 100)
  IN IF nxt.err # "none" THEN nxt
     ELSE IF d2 < lim * lim /\ 4 * RadiusUnit * RadiusUnit * d2 < min40 * min40
     THEN IF d2 = 0
          THEN [nxt EXCEPT !.err = "ZeroDivisionError@376"]
          ELSE [x |-> obs.x + DivAway(dx * min40 * 10, 2 * RadiusUnit * dist10),
                y |-> obs.y + DivAway(dy * min40 * 10, 2 * RadiusUnit * dist10),
                err |-> "none"]
     ELSE nxt

RECURSIVE CollideAll(_, _, _, _)
CollideAll(nxt, obs, n, radius) ==
  IF n > Len(obs) THEN nxt
  ELSE CollideAll(Collide(nxt, obs[n], radius), obs, n + 1, radius)

\* self.growth = 0.05
growth == 1

\* Particle.update with drawn velocity v: the particle's new fields and the
\* error the call ends with; an error leaves position, life and radius as they were.
update(p, v, obs) ==
  LET nxt == CollideAll([x |-> p.x + v[1], y |-> p.y + v[2], err |-> "none"],
                        obs, 1, p.radius)
  IN IF nxt.err # "none"
     THEN [p |-> p, err |-> nxt.err]
     ELSE [p |-> [p EXCEPT !.x = nxt.x, !.y = nxt.y,
                           !.life = @ - p.decay, !.radius = @ + growth],
           err |-> "none"]

VARIABLES pool, active_particles, part, call, mouse,
          slider_val, smoothing_radius, spatial_hash, time,
          pc, idx, updRange, err,
          densDone, forceDone, updCount, passStart, divisors

vars == <<pool, active_particles, part, call, mouse,
          slider_val, smoothing_radius, spatial_hash, time,
          pc, idx, updRange, err,
          densDone, forceDone, updCount, passStart, divisors>>

poolVars == <<pool, active_particles, part>>
frameVars == <<mouse, slider_val, smoothing_radius, spatial_hash, time,
               pc, idx, updRange, err,
               densDone, forceDone, updCount, passStart, divisors>>

\* ------------------------------------------------------------ construction
\* The state main() builds before its loop (lines 468-477); the slots of the
\* pool are Particle(0, 0), here all with the middle decay draw.
Construct(size) ==
  /\ pool = [n \in 1..size |-> n]
  /\ active_particles = <<>>
  /\ part = [p \in 1..size |-> reset(0, 0, base_decay, 4 * RadiusUnit)]
  /\ call = [op |-> "init", arg |-> None, ret |-> None]
  /\ mouse = MouseUp
  /\ slider_val = 30
  /\ smoothing_radius = 30
  /\ spatial_hash = FixedGrid(WIDTH, HEIGHT, 30)
  /\ time = 0
  /\ idx = 0
  /\ updRange = <<>>
  /\ err = "none"
  /\ densDone = {}
  /\ forceDone = {}
  /\ updCount = [p \in 1..size |-> 0]
  /\ passStart = <<>>
  /\ divisors = {}

\* ------------------------------------------------------------ the pool alone
\* Callers of the pool other than main(): any get(x, y) and any
\* return_particle(p), p one of the pool's slots, free or active.
CallXs == {0, 10}
CallYs == {0}

CallGet ==
  /\ pc = "pool"
  /\ \E x \in CallXs, y \in CallYs, d \in DecayChoices, r \in RadiusChoices :
       LET g == get(pool, active_particles)
       IN /\ pool' = g.pool
          /\ active_particles' = g.active
          /\ part' = IF g.ret # None THEN [part EXCEPT ![g.ret] = reset(x, y, d, r)] ELSE part
          /\ call' = [op |-> "get", arg |-> None, ret |-> g.ret]
          /\ err' = g.err
          /\ pc' = IF g.err = "none" THEN pc ELSE "crashed"
  /\ UNCHANGED <<mouse, slider_val, smoothing_radius, spatial_hash, time, idx, updRange,
                 densDone, forceDone, updCount, passStart, divisors>>

CallReturn ==
  /\ pc = "pool"
  /\ \E p \in DOMAIN part :
       LET r == return_particle(pool, active_particles, p)
       IN /\ pool' = r.pool
          /\ active_particles' = r.active
          /\ call' = [op |-> "return_particle", arg |-> p, ret |-> None]
  /\ UNCHANGED <<part, frameVars>>

PoolInit == Construct(CallerPoolSize) /\ pc = "pool"
PoolNext == CallGet \/ CallReturn
SpecPool == PoolInit /\ [][PoolNext]_vars

\* ------------------------------------------------------------ main()
\* emit_pos = (WIDTH // 2 + 150, HEIGHT - 50)
DefaultEmit == <<WIDTH \div 2 + 150, HEIGHT - 50>>
\* Left edge of the scene: the panel is x <= 300.
PanelW == 300
\* y of the smoothing-radius slider.
SliderY == 330
\* Where the mouse is held over the scene for a frame.
ScenePts == {<<650, 361>>, <<650, 5>>, <<650, 699>>}
\* Where it is held on the smoothing-radius slider.
SliderPts == {<<x, SliderY>> : x \in SliderMouseXs}
\* random.uniform(-10, 10): px is left at the emit position, py takes either end.
JitterX == {0}
JitterY == {-10, 10}
emission_rate == 1

\* The pressure-force loop placed before the density loop.
NextPass_ForceFirst(ph) ==
  CASE ph = "insert" -> "force"
    [] ph = "force" -> "density"
    [] ph = "density" -> "update"

\* The integration loop placed before the pressure-force loop.
NextPass_UpdateFirst(ph) ==
  CASE ph = "insert" -> "density"
    [] ph = "density" -> "update"
    [] ph = "force" -> "update"

\* The order of the loops of lines 566-580: the loop that follows loop ph.
NextPass(ph) ==
  CASE ph = "insert" -> "density"
    [] ph = "density" -> "force"
    [] ph = "force" -> "update"

\* range(len(particles)): the same indices from first to last.
update_range_forward(n) == [k \in 1..n |-> k - 1]

\* range(len(particles) - 1, -1, -1) as the sequence of indices it yields.
update_range(n) == [k \in 1..n |-> n - k]

\* Lines 501-541: the events of the frame, the clock, the slider read and the
\* grid rebuild.  For the frame the button is up, or held on the smoothing-radius
\* slider (MOUSEBUTTONDOWN or MOUSEMOTION there: update_val), or held over the scene.
Events ==
  /\ pc = "events"
  /\ time < MaxFrames
  /\ \E m \in {MouseUp} \cup SliderPts \cup ScenePts :
       LET val == IF m \in SliderPts THEN update_val(m[1]) ELSE slider_val
       IN /\ mouse' = m
          /\ slider_val' = val
          /\ smoothing_radius' = val
          /\ spatial_hash' = IF Abs(spatial_hash.cell_size - val) > 1
                             THEN FixedGrid(WIDTH, HEIGHT, val)
                             ELSE spatial_hash
  /\ time' = time + 1
  /\ pc' = "emit"
  /\ densDone' = {}
  /\ forceDone' = {}
  /\ updCount' = [p \in DOMAIN part |-> 0]
  /\ passStart' = <<>>
  /\ divisors' = {}
  /\ UNCHANGED <<poolVars, call, idx, updRange, err>>

\* Lines 543-554: (should_emit, emit_pos) for the mouse of this frame; no
\* obstacle is being dragged.
should_emit(m) == IF m # MouseUp THEN m[1] > PanelW ELSE TRUE
emit_pos(m) == IF m # MouseUp /\ m[1] > PanelW THEN m ELSE DefaultEmit

\* Lines 556-563 with should_emit false.
NoEmit ==
  /\ pc = "emit"
  /\ ~should_emit(mouse)
  /\ pc' = "clear"
  /\ UNCHANGED <<poolVars, call, mouse, slider_val, smoothing_radius, spatial_hash, time,
                 idx, updRange, err, densDone, forceDone, updCount, passStart, divisors>>

\* Lines 556-563 with should_emit true and emission_rate = 1: one get at the
\* jittered emit position; "if p:" skips the velocity jitter for None.
Emit ==
  /\ pc = "emit"
  /\ should_emit(mouse)
  /\ \E jx \in JitterX, jy \in JitterY, d \in DecayChoices, r \in RadiusChoices :
       LET g == get(pool, active_particles)
           px == emit_pos(mouse)[1] + jx
           py == emit_pos(mouse)[2] + jy
       IN /\ pool' = g.pool
          /\ active_particles' = g.active
          /\ part' = IF g.ret # None
                     THEN [part EXCEPT ![g.ret] = reset(px, py, d, r)]
                     ELSE part
          /\ call' = [op |-> "get", arg |-> None, ret |-> g.ret]
          /\ err' = g.err
          /\ pc' = IF g.err = "none" THEN "clear" ELSE "crashed"
  /\ UNCHANGED <<mouse, slider_val, smoothing_radius, spatial_hash, time, idx, updRange,
                 densDone, forceDone, updCount, passStart, divisors>>

\* Line 565.
Clear ==
  /\ pc = "clear"
  /\ spatial_hash' = clear(spatial_hash)
  /\ idx' = 1
  /\ pc' = "insert"
  /\ UNCHANGED <<poolVars, call, mouse, slider_val, smoothing_radius, time, updRange, err,
                 densDone, forceDone, updCount, passStart, divisors>>

\* Lines 566-567, one iteration.
InsertStep ==
  /\ pc = "insert"
  /\ idx <= Len(active_particles)
  /\ LET p == active_particles[idx]
     IN spatial_hash' = insert(spatial_hash, p, part[p].x, part[p].y)
  /\ idx' = idx + 1
  /\ UNCHANGED <<poolVars, call, mouse, slider_val, smoothing_radius, time, pc, updRange, err,
                 densDone, forceDone, updCount, passStart, divisors>>

\* Lines 569-570, one iteration.
DensityStep ==
  /\ pc = "density"
  /\ idx <= Len(active_particles)
  /\ LET p == active_particles[idx]
         dp == compute_density_pressure(spatial_hash, part, p, smoothing_radius)
     IN /\ part' = [part EXCEPT ![p].density = dp.density, ![p].pressure = dp.pressure]
        /\ densDone' = densDone \cup {p}
  /\ idx' = idx + 1
  /\ UNCHANGED <<pool, active_particles, call, mouse, slider_val, smoothing_radius, spatial_hash,
                 time, pc, updRange, err, forceDone, updCount, passStart, divisors>>

\* Lines 572-573, one iteration: line 303 divides by 2 * neighbor.density and
\* raises ZeroDivisionError on a zero density.
ForceStep ==
  /\ pc = "force"
  /\ idx <= Len(active_particles)
  /\ LET p == active_particles[idx]
         used == compute_pressure_force(spatial_hash, part, p, smoothing_radius)
         ds == {<<used[n], part[used[n]].density>> : n \in 1..Len(used)}
     IN /\ divisors' = divisors \cup ds
        /\ forceDone' = forceDone \cup {p}
        /\ IF \E d \in ds : d[2] = 0
           THEN err' = "ZeroDivisionError@303" /\ pc' = "crashed" /\ idx' = idx
           ELSE err' = err /\ pc' = pc /\ idx' = idx + 1
  /\ UNCHANGED <<poolVars, call, mouse, slider_val, smoothing_radius, spatial_hash, time,
                 updRange, densDone, updCount, passStart>>

\* The end of one of the loops of lines 566-573: the next loop starts; line 575
\* builds the range of the integration pass once, from the length at that moment.
PassDone ==
  /\ pc \in {"insert", "density", "force"}
  /\ idx > Len(active_particles)
  /\ idx' = 1
  /\ pc' = NextPass(pc)
  /\ IF NextPass(pc) = "update"
     THEN /\ updRange' = update_range(Len(active_particles))
          /\ passStart' = active_particles
     ELSE UNCHANGED <<updRange, passStart>>
  /\ UNCHANGED <<poolVars, call, mouse, slider_val, smoothing_radius, spatial_hash, time,
                 err, densDone, forceDone, updCount, divisors>>

\* Lines 576-580, one iteration.
UpdateStep ==
  /\ pc = "update"
  /\ updRange # <<>>
  /\ LET i == Head(updRange)
     IN IF i >= Len(active_particles)
        THEN /\ err' = "IndexError"
             /\ pc' = "crashed"
             /\ UNCHANGED <<poolVars, call, updRange, updCount>>
        ELSE LET p == active_particles[i + 1]
             IN \E v \in Vel :
                  LET u == update(part[p], v, obstacles)
                      r == return_particle(pool, active_particles, p)
                  IN /\ part' = [part EXCEPT ![p] = u.p]
                     /\ err' = u.err
                     /\ IF u.err # "none"
                        THEN /\ pc' = "crashed"
                             /\ UNCHANGED <<pool, active_particles, call, updRange, updCount>>
                        ELSE /\ pc' = pc
                             /\ updRange' = Tail(updRange)
                             /\ updCount' = [updCount EXCEPT ![p] = @ + 1]
                             /\ IF is_dead(u.p)
                                THEN /\ pool' = r.pool
                                     /\ active_particles' = r.active
                                     /\ call' = [op |-> "return_particle", arg |-> p,
                                                 ret |-> None]
                                ELSE UNCHANGED <<pool, active_particles, call>>
  /\ UNCHANGED <<mouse, slider_val, smoothing_radius, spatial_hash, time, idx,
                 densDone, forceDone, passStart, divisors>>

\* Lines 582-602: drawing; the frame is over.
FrameEnd ==
  /\ pc = "update"
  /\ updRange = <<>>
  /\ pc' = "events"
  /\ UNCHANGED <<poolVars, call, mouse, slider_val, smoothing_radius, spatial_hash, time, idx,
                 updRange, err, densDone, forceDone, updCount, passStart, divisors>>

Init == Construct(PoolSize) /\ pc = "events"

Next ==
  \/ Events
  \/ NoEmit
  \/ Emit
  \/ Clear
  \/ InsertStep
  \/ DensityStep
  \/ ForceStep
  \/ PassDone
  \/ UpdateStep
  \/ FrameEnd

Spec == Init /\ [][Next]_vars

\* ============================================================ claims
\* How often slot p occurs in the list s.
Count(s, p) == Cardinality({n \in 1..Len(s) : s[n] = p})

\* C1: for a pool of capacity N, after any sequence of get and return_particle
\* calls (get on an exhausted pool and return_particle of a free slot included)
\* len(pool) + len(active_particles) is exactly N, so at most N slots are live.
C1_PoolConservation ==
  /\ Len(pool) + Len(active_particles) = CallerPoolSize
  /\ Len(active_particles) <= CallerPoolSize

\* A get on the exhausted pool has returned None.
C1_Witness ==
  /\ call.op = "get"
  /\ call.ret = None
  /\ Len(active_particles) = CallerPoolSize

\* C2: with the free list empty, get returns None, creates no slot and leaves
\* the free and the active list as they were; the emission of main() drops the
\* spawn and the frame goes on to the grid rebuild without an error.
C2_ExhaustedGetDropsSpawn ==
  [][(pc = "emit" /\ should_emit(mouse) /\ pool = <<>>)
       => /\ pool' = pool
          /\ active_particles' = active_particles
          /\ part' = part
          /\ call'.ret = None
          /\ err' = "none"
          /\ pc' = "clear"]_vars

\* A frame whose spawn was dropped has reached the grid rebuild.
C2_Witness ==
  /\ pc = "clear"
  /\ call.op = "get"
  /\ call.ret = None
  /\ pool = <<>>
  /\ Len(active_particles) = PoolSize

\* C3: return_particle(p) of a slot that is not active changes neither list and
\* leaves p once in the free list; of an active slot it moves exactly p from the
\* active to the free list, the other active slots keeping their order.
C3_ReturnFrame ==
  [][(pc = "pool" /\ call'.op = "return_particle")
       => LET p == call'.arg
              others(q) == q # p
          IN IF Count(active_particles, p) = 0
             THEN /\ pool' = pool
                  /\ active_particles' = active_particles
                  /\ Count(pool', p) = 1
             ELSE /\ active_particles' = SelectSeq(active_particles, others)
                  /\ Len(active_particles') = Len(active_particles) - 1
                  /\ pool' = Append(pool, p)
                  /\ Count(pool', p) = 1]_vars

\* Slot call.arg was released while already free: it is in the free list, and
\* not where this call would have appended it.
C3_Witness ==
  /\ call.op = "return_particle"
  /\ Count(pool, call.arg) = 1
  /\ pool[Len(pool)] # call.arg
  /\ active_particles # <<>>

\* C4: in every frame, whatever the slider did between frames, the grid the
\* density and pressure-force passes query has cell_size >= smoothing_radius.
C4_CellCoversRadius ==
  pc \in {"density", "force"} => spatial_hash.cell_size >= smoothing_radius

\* C5: in Particle.update a tentative next position that coincides with an
\* obstacle centre skips the contact normal: the update ends without a
\* division by zero.
C5_ZeroDistanceSkipped == err # "ZeroDivisionError@376"

\* Position (x, y) lies outside the area the grid g covers.
Outside(g, x, y) ==
  \/ x < 0
  \/ y < 0
  \/ x >= g.cols * g.cell_size
  \/ y >= g.rows * g.cell_size

\* C6: insert of a particle standing outside the area the grid covers changes
\* no bucket, and no query of the frame's passes returns such a particle.
C6_OutsideNotInserted ==
  /\ [][(pc = "insert" /\ idx <= Len(active_particles)
           /\ Outside(spatial_hash, part[active_particles[idx]].x,
                      part[active_particles[idx]].y))
          => spatial_hash' = spatial_hash]_vars
  /\ [](pc \in {"density", "force"}
          => \A p \in InGrid(spatial_hash) :
               ~Outside(spatial_hash, part[p].x, part[p].y))

\* C7: every density that line 303 divides by is at least the floor 0.0001
\* that the density pass of the same frame set, so the divisor is never zero;
\* slots acquired in the frame (density reset to 0.0) included.
C7_DivisorFloored ==
  /\ \A d \in divisors : d[2] >= DensityFloor
  /\ err # "ZeroDivisionError@303"

\* Line 303 has divided by the density of a slot acquired in this frame and by
\* that of a slot standing above the top edge of the grid.
C7_Witness ==
  /\ pc = "update"
  /\ \E d \in divisors : part[d[1]].life = 255 * LifeUnit
  /\ \E d \in divisors : part[d[1]].y < 0

\* The live particles of the frame: those the integration pass started from,
\* once it has started.
FrameLive ==
  IF pc \in {"update", "events"} THEN SeqSet(passStart) ELSE SeqSet(active_particles)

RECURSIVE Repopulated(_, _, _, _)
\* The grid after clear and insert of act[n], act[n + 1], ...
Repopulated(g, act, pt, n) ==
  IF n > Len(act) THEN g
  ELSE Repopulated(insert(g, act[n], pt[act[n]].x, pt[act[n]].y), act, pt, n + 1)

\* C8: within a frame the grid is cleared and repopulated from all live
\* particles, then the density pass, then the pressure-force pass, then the
\* integration pass: no pressure force is computed before every live particle
\* has its density, no update runs before every live particle has its pressure
\* force, and from the repopulation to the end of the pressure-force pass
\* neither the buckets nor any position changes.
C8_FrameOrder ==
  /\ [](/\ (forceDone # {} => densDone = FrameLive)
        /\ ((\E p \in DOMAIN updCount : updCount[p] > 0) => forceDone = FrameLive)
        /\ (pc \in {"density", "force"}
              => spatial_hash = Repopulated(clear(spatial_hash), active_particles, part, 1)))
  /\ [][(pc \in {"density", "force"})
          => /\ spatial_hash' = spatial_hash
             /\ \A p \in DOMAIN part : part'[p].x = part[p].x /\ part'[p].y = part[p].y]_vars

\* The integration pass of a frame with two live particles has begun.
C8_Witness ==
  /\ pc = "update"
  /\ Cardinality(forceDone) = 2
  /\ \E p \in DOMAIN updCount : updCount[p] > 0

\* The integration pass of the frame is over.
PassOver == (pc = "update" /\ updRange = <<>>) \/ (pc = "events" /\ time > 0)

C10_DeadLeaveAliveStay ==
  /\ [](\A p \in SeqSet(active_particles) :
          part[p].life > 0 /\ part[p].life <= 255 * LifeUnit)
  /\ [][\A p \in SeqSet(active_particles) :
          p \notin SeqSet(active_particles')
            => /\ pc = "update"
               /\ part[p].life > 0
               /\ part'[p].life <= 0
               /\ p \in SeqSet(pool')]_vars

\* A frame is over in which a particle died and went back to the free list
\* while another one stayed active.
C10_Witness ==
  /\ pc = "events"
  /\ call.op = "return_particle"
  /\ part[call.arg].life <= 0
  /\ call.arg \in SeqSet(pool)
  /\ active_particles # <<>>

\* ------------------------------------------------------------ the grid alone
\* Callers of FixedGrid other than main(): clear(), insert(p) of particles that
\* stand anywhere, and query(x, y, radius) at any point.  GridSlots particles
\* stand at points of GridPts: above and left of the grid, on both sides of the
\* border between two cells, two cells further, in the last column and right
\* of the grid.
GridSlots == 2
GridPts == {<<-5, -5>>, <<29, 25>>, <<61, 25>>, <<91, 25>>, <<1015, 25>>, <<1025, 25>>}
\* Query points, inside the grid and outside it, and the radii asked for: two
\* within cell_size and one beyond it.
QueryPts == {<<-35, -5>>, <<59, 25>>, <<1025, 25>>}
QueryRadii(g) == {g.cell_size - 10, g.cell_size, g.cell_size + 10}

GridIdle ==
  <<pool, active_particles, part, mouse, slider_val, smoothing_radius, time,
    pc, idx, updRange, err, densDone, forceDone, updCount, passStart, divisors>>

\* spatial_hash.clear()
GridClear ==
  /\ pc = "grid"
  /\ spatial_hash' = clear(spatial_hash)
  /\ call' = [op |-> "clear", arg |-> None, ret |-> None]
  /\ UNCHANGED GridIdle

\* spatial_hash.insert(p) for a particle not offered since the last clear, as
\* in main(), where each active particle is inserted once per frame.
GridInsert ==
  /\ pc = "grid"
  /\ \E p \in DOMAIN part :
       /\ p \notin InGrid(spatial_hash)
       /\ spatial_hash' = insert(spatial_hash, p, part[p].x, part[p].y)
       /\ call' = [op |-> "insert", arg |-> p, ret |-> None]
  /\ UNCHANGED GridIdle

\* spatial_hash.query(x, y, radius); the result is kept until the next call.
GridQuery ==
  /\ pc = "grid"
  /\ \E q \in QueryPts, radius \in QueryRadii(spatial_hash) :
       call' = [op |-> "query", arg |-> <<q[1], q[2], radius>>,
                ret |-> query(spatial_hash, part, q[1], q[2], radius)]
  /\ UNCHANGED spatial_hash
  /\ UNCHANGED GridIdle

GridInit ==
  /\ pool = <<>>
  /\ active_particles = [n \in 1..GridSlots |-> n]
  /\ part \in [1..GridSlots ->
                 {reset(q[1], q[2], base_decay, 4 * RadiusUnit) : q \in GridPts}]
  /\ call = [op |-> "init", arg |-> None, ret |-> None]
  /\ mouse = MouseUp
  /\ slider_val = 30
  /\ smoothing_radius = 30
  /\ spatial_hash = FixedGrid(WIDTH, HEIGHT, 30)
  /\ time = 0
  /\ pc = "grid"
  /\ idx = 0
  /\ updRange = <<>>
  /\ err = "none"
  /\ densDone = {}
  /\ forceDone = {}
  /\ updCount = [p \in 1..GridSlots |-> 0]
  /\ passStart = <<>>
  /\ divisors = {}

GridNext == GridClear \/ GridInsert \/ GridQuery

SpecGrid == GridInit /\ [][GridNext]_vars

\* The brute-force scan: the particles some bucket holds that stand within
\* radius of (x, y).
BruteForce(g, pt, x, y, radius) ==
  {p \in InGrid(g) :
     (pt[p].x - x) * (pt[p].x - x) + (pt[p].y - y) * (pt[p].y - y) <= radius * radius}

MaxAge == CeilDiv(5 * Max(1, LifetimeFrames), 4)

\* The updates particle p has had since reset gave it life 255.0.
Age(p) == (255 * LifeUnit - p.life) \div p.decay

\* C12: every particle acquired from the pool is returned to it.  Its decay is
\* positive and lies between 0.8 and 1.2 times 255 / max(1, particle_lifetime *
\* FPS), its life is 255 less a whole number of decays, fewer than
\* ceil(1.25 * max(1, particle_lifetime * FPS)) of them while it is active, and
\* when the program has stopped no particle is left that was acquired and not
\* returned.
C12_AcquiredIsReturned ==
  /\ \A p \in SeqSet(active_particles) :
       /\ part[p].decay > 0
       /\ 4 * base_decay <= 5 * part[p].decay
       /\ 5 * part[p].decay <= 6 * base_decay
       /\ (255 * LifeUnit - part[p].life) % part[p].decay = 0
       /\ Age(part[p]) < MaxAge
  /\ pc = "crashed" => active_particles = <<>>

====
